---- MODULE Spec2Model ----
(***************************************************************************)
(* SSM session alerts: a CloudTrail event delivered by EventBridge is      *)
(* turned into a Slack payload (build_slack_payload) and posted to a       *)
(* webhook (send_to_slack) by the entry point (handler / lambda_handler).  *)
(*                                                                         *)
(* Python values are tagged records: None, Str(s), Num(n), Dict(d), List.  *)
(* A dict is a function from its keys to values; an absent key is a key    *)
(* outside the function's domain.  A call returns Return(v) or Raise(..).  *)
(***************************************************************************)
EXTENDS Integers, Sequences, FiniteSets, TLC

VARIABLES
  module,         \* the module whose entry point runs: main or lambda_function
  event,          \* the event document handed to the entry point
  env,            \* the process environment
  pc,             \* where the invocation is
  built,          \* what build_slack_payload returned or raised
  sent,           \* the requests urlopen put on the network, in order
  net,            \* how the network answered the last request
  delivery,       \* what send_to_slack returned
  exc,            \* the exception raised inside the try block
  result,         \* what the entry point returned
  user_identity,  \* the argument of build_user_summary
  summary         \* what build_user_summary returned or raised

vars == <<module, event, env, pc, built, sent, net, delivery, exc, result,
          user_identity, summary>>

(* ------------------------------ bounds -------------------------------- *)

\* ARNs given to build_user_summary: every string over {"r", "/"} up to this length.
MaxArnLen == 3

\* Events given to build_slack_payload: a base event with at most this many
\* fields replaced by another value (or removed).
MaxOverrides == 2

\* Events given to the entry point: as above, with this many fields replaced.
MaxHandlerOverrides == 1

(* --------------------------- Python values ---------------------------- *)

None == [k |-> "none"]

Str(s) == [k |-> "str", s |-> s]

Num(n) == [k |-> "int", n |-> n]

Dict(d) == [k |-> "dict", d |-> d]

List == [k |-> "list"]

EmptyDict == Dict(<<>>)

\* bool(v)
Truthy(v) ==
  CASE v.k = "none" -> FALSE
    [] v.k = "str"  -> v.s # ""
    [] v.k = "int"  -> v.n # 0
    [] v.k = "dict" -> DOMAIN v.d # {}
    [] v.k = "list" -> FALSE

\* a or b
Or(a, b) == IF Truthy(a) THEN a ELSE b

\* d.get(key, default), d a dict
Get(d, key, default) == IF key \in DOMAIN d.d THEN d.d[key] ELSE default

\* str(v), as an f-string formats a value
Fmt(v) ==
  CASE v.k = "str"  -> v.s
    [] v.k = "none" -> "None"
    [] v.k = "int"  -> ToString(v.n)
    [] v.k = "dict" -> "{}"
    [] v.k = "list" -> "[]"

Return(v) == [ok |-> TRUE, v |-> v]

Raise(type, msg) == [ok |-> FALSE, type |-> type, msg |-> msg]

NoAttr(v, attr) ==
  Raise("AttributeError",
        "'" \o (CASE v.k = "none" -> "NoneType" [] v.k = "str" -> "str"
                  [] v.k = "int" -> "int" [] v.k = "list" -> "list"
                  [] v.k = "dict" -> "dict")
            \o "' object has no attribute '" \o attr \o "'")

(* ------------------------------ strings ------------------------------- *)

Min(a, b) == IF a < b THEN a ELSE b

\* s.startswith(p)
StartsWith(s, p) == Len(s) >= Len(p) /\ SubSeq(s, 1, Len(p)) = p

\* sub in s
Contains(s, sub) ==
  \E i \in 1..(Len(s) - Len(sub) + 1) : SubSeq(s, i, i + Len(sub) - 1) = sub

LowerChar(c) ==
  CASE c = "A" -> "a" [] c = "B" -> "b" [] c = "C" -> "c" [] c = "D" -> "d"
    [] c = "E" -> "e" [] c = "F" -> "f" [] c = "G" -> "g" [] c = "H" -> "h"
    [] c = "I" -> "i" [] c = "J" -> "j" [] c = "K" -> "k" [] c = "L" -> "l"
    [] c = "M" -> "m" [] c = "N" -> "n" [] c = "O" -> "o" [] c = "P" -> "p"
    [] c = "Q" -> "q" [] c = "R" -> "r" [] c = "S" -> "s" [] c = "T" -> "t"
    [] c = "U" -> "u" [] c = "V" -> "v" [] c = "W" -> "w" [] c = "X" -> "x"
    [] c = "Y" -> "y" [] c = "Z" -> "z" [] OTHER -> c

\* s.lower()
RECURSIVE Lower(_)
Lower(s) ==
  IF s = "" THEN ""
  ELSE LowerChar(SubSeq(s, 1, 1)) \o Lower(SubSeq(s, 2, Len(s)))

\* s.split(sep) for a one-character sep: the segments between separators.
RECURSIVE SplitFrom(_, _, _, _)
SplitFrom(s, sep, i, cur) ==
  IF i > Len(s) THEN <<cur>>
  ELSE IF SubSeq(s, i, i) = sep
       THEN <<cur>> \o SplitFrom(s, sep, i + 1, "")
       ELSE SplitFrom(s, sep, i + 1, cur \o SubSeq(s, i, i))

Split(s, sep) == SplitFrom(s, sep, 1, "")

\* s.strip() for blanks
RECURSIVE Strip(_)
Strip(s) ==
  IF s = "" THEN ""
  ELSE IF SubSeq(s, 1, 1) = " " THEN Strip(SubSeq(s, 2, Len(s)))
  ELSE IF SubSeq(s, Len(s), Len(s)) = " " THEN Strip(SubSeq(s, 1, Len(s) - 1))
  ELSE s

\* "\n".join(lines)
RECURSIVE Join(_, _)
Join(sep, lines) ==
  IF lines = <<>> THEN ""
  ELSE IF Len(lines) = 1 THEN lines[1]
  ELSE lines[1] \o sep \o Join(sep, Tail(lines))

(* ------------------------- build_user_summary ------------------------- *)

\* Faulty variant of session_name: keeps the first segment of the ARN.
session_name_first(arn, username, principal) ==
  IF Contains(arn.s, "/")
  THEN Str(Split(arn.s, "/")[1])
  ELSE Or(username, Or(principal, Str("assumed-role")))

\* session_name = arn.split("/")[-1] if "/" in arn else (username or principal or "assumed-role")
session_name(arn, username, principal) ==
  IF Contains(arn.s, "/")
  THEN LET parts == Split(arn.s, "/") IN Str(parts[Len(parts)])
  ELSE Or(username, Or(principal, Str("assumed-role")))

\* extras = {"Account": account_id or "-", "Principal": principal or "-"}
base_extras(account_id, principal) ==
  ("Account" :> Or(account_id, Str("-"))) @@ ("Principal" :> Or(principal, Str("-")))

build_user_summary(ui) ==
  IF ui.k # "dict" THEN Return([short |-> Str("unknown"), extras |-> <<>>])
  ELSE
  LET utype      == Get(ui, "type", None)
      account_id == Get(ui, "accountId", None)
      principal  == Get(ui, "principalId", None)
      arn        == Or(Get(ui, "arn", None), Str(""))
      username   == Get(ui, "userName", None)
      extras     == base_extras(account_id, principal)
  IN
  IF utype = Str("IAMUser") THEN
    Return([short  |-> Or(username, Or(principal, Str("iam-user"))),
            extras |-> ("UserType" :> Str("IAMUser")) @@ extras])
  ELSE IF utype = Str("AssumedRole") THEN
    IF arn.k # "str" THEN Raise("TypeError", "argument of type '" \o arn.k \o "' is not iterable")
    ELSE
    LET sc == Get(ui, "sessionContext", EmptyDict) IN
    IF sc.k # "dict" THEN NoAttr(sc, "get")
    ELSE
    LET si == Get(sc, "sessionIssuer", EmptyDict) IN
    IF si.k # "dict" THEN NoAttr(si, "get")
    ELSE
    LET issuer == Or(Get(si, "arn", None), Str("-")) IN
    Return([short  |-> session_name(arn, username, principal),
            extras |-> ("UserType" :> Str("AssumedRole")) @@ ("RoleIssuer" :> issuer) @@ extras])
  ELSE IF utype = Str("Root") THEN
    Return([short |-> Str("Root"), extras |-> ("UserType" :> Str("Root")) @@ extras])
  ELSE
    Return([short  |-> Or(username, Or(principal, Or(arn, Str("unknown")))),
            extras |-> ("UserType" :> Or(utype, Str("Unknown"))) @@ extras])

(* ----------------------------- to_iso8601 ----------------------------- *)

\* s.replace(old, new) for a one-character old
RECURSIVE Replace(_, _, _)
Replace(s, old, new) ==
  IF s = "" THEN ""
  ELSE (IF SubSeq(s, 1, 1) = old THEN new ELSE SubSeq(s, 1, 1))
         \o Replace(SubSeq(s, 2, Len(s)), old, new)

Digits == {"0", "1", "2", "3", "4", "5", "6", "7", "8", "9"}

TwoDigit(lo, hi) == {ToString(n \div 10) \o ToString(n % 10) : n \in lo..hi}

\* datetime.fromisoformat accepts s as YYYY-MM-DDTHH:MM:SS+00:00.  The
\* timestamps of the modelled events are of this form or hold no digit at
\* all, so the other forms fromisoformat accepts are not needed.
IsUtcDateTime(s) ==
  /\ Len(s) = 25
  /\ \A i \in {1, 2, 3, 4} : SubSeq(s, i, i) \in Digits
  /\ SubSeq(s, 5, 5) = "-"
  /\ SubSeq(s, 6, 7) \in TwoDigit(1, 12)
  /\ SubSeq(s, 8, 8) = "-"
  /\ SubSeq(s, 9, 10) \in TwoDigit(1, 31)
  /\ SubSeq(s, 11, 11) = "T"
  /\ SubSeq(s, 12, 13) \in TwoDigit(0, 23)
  /\ SubSeq(s, 14, 14) = ":"
  /\ SubSeq(s, 15, 16) \in TwoDigit(0, 59)
  /\ SubSeq(s, 17, 17) = ":"
  /\ SubSeq(s, 18, 19) \in TwoDigit(0, 59)
  /\ SubSeq(s, 20, 25) = "+00:00"

to_iso8601(ts) ==
  IF ~Truthy(ts) THEN Str("-")
  ELSE IF ts.k # "str" THEN ts   \* ts.replace raises inside the try
  ELSE LET iso == Replace(ts.s, "Z", "+00:00") IN
       IF IsUtcDateTime(iso)
       THEN Str(SubSeq(iso, 1, 10) \o " " \o SubSeq(iso, 12, 19) \o "Z")
       ELSE ts

(* ------------------------------ get_env ------------------------------- *)

\* os.environ.get(name, default)
get_env(environ, name, default) ==
  IF name \in DOMAIN environ THEN Str(environ[name]) ELSE default

(* ------------------- build_slack_payload (main.py) -------------------- *)

\* user_agent[:60]
UserAgentMax == 60

\* detail = event.get("detail", {})
detail_of(ev) == Get(ev, "detail", EmptyDict)

event_name_of(detail) == Get(detail, "eventName", Str("UnknownEvent"))

region_of(detail) == Get(detail, "awsRegion", Str("-"))

source_ip_of(detail) == Get(detail, "sourceIPAddress", Str("-"))

user_identity_of(detail) == Get(detail, "userIdentity", EmptyDict)

\* req = detail.get("requestParameters", {}) or {}
req_of(detail) == Or(Get(detail, "requestParameters", EmptyDict), EmptyDict)

\* resp = detail.get("responseElements", {}) or {}
resp_of(detail) == Or(Get(detail, "responseElements", EmptyDict), EmptyDict)

\* target = req.get("target") or req.get("Target") or "-"
target_of(req) == Or(Get(req, "target", None), Or(Get(req, "Target", None), Str("-")))

doc_name_of(req) == Or(Get(req, "documentName", None), Or(Get(req, "DocumentName", None), Str("-")))

reason_of(req) == Or(Get(req, "reason", None), Or(Get(req, "Reason", None), Str("-")))

\* session_id = resp.get("sessionId") or resp.get("SessionId")
\*              or resp.get("StartSessionResponse", {}).get("SessionId") or "-"
session_id_of(resp) ==
  LET direct == Or(Get(resp, "sessionId", None), Get(resp, "SessionId", None)) IN
  IF Truthy(direct) THEN Return(direct)
  ELSE LET wrapper == Get(resp, "StartSessionResponse", EmptyDict) IN
       IF wrapper.k # "dict" THEN NoAttr(wrapper, "get")
       ELSE Return(Or(Get(wrapper, "SessionId", None), Str("-")))

RootFlag == ":rotating_light: *ROOT ACCOUNT* :rotating_light:"

PrivilegedFlag == ":warning: privileged role?"

ExternalIpFlag == ":globe_with_meridians: external IP"

\* Faulty variant of is_external_ip: forgets the 172.16. prefix and loopback.
is_external_ip_loose(ip) ==
  /\ ip # "-"
  /\ ~StartsWith(ip, "10.")
  /\ ~StartsWith(ip, "192.168.")

\* source_ip not in ("-", "127.0.0.1") and not source_ip.startswith("10.") and ...
is_external_ip(ip) ==
  /\ ip \notin {"-", "127.0.0.1"}
  /\ ~StartsWith(ip, "10.")
  /\ ~StartsWith(ip, "192.168.")
  /\ ~StartsWith(ip, "172.16.")

\* The risk flags, in the order they are appended.
risk_flags_of(user_type, user_str, source_ip) ==
  LET root == IF user_type = Str("Root") THEN <<RootFlag>> ELSE <<>> IN
  IF user_type = Str("AssumedRole") /\ user_str.k # "str" THEN NoAttr(user_str, "lower")
  ELSE
  LET priv == IF /\ user_type = Str("AssumedRole")
                 /\ \E x \in {"admin", "prod", "power"} : Contains(Lower(user_str.s), x)
              THEN <<PrivilegedFlag>> ELSE <<>>
  IN
  IF source_ip \in {Str("-"), Str("127.0.0.1")} THEN Return(root \o priv)
  ELSE IF source_ip.k # "str" THEN NoAttr(source_ip, "startswith")
  ELSE Return(root \o priv \o (IF is_external_ip(source_ip.s) THEN <<ExternalIpFlag>> ELSE <<>>))

\* payload["channel"] is set when SLACK_CHANNEL is not blank.
with_channel(payload, environ) ==
  LET slack_channel == Strip(get_env(environ, "SLACK_CHANNEL", Str("")).s) IN
  IF slack_channel # "" THEN payload @@ ("channel" :> slack_channel) ELSE payload

\* Faulty variant of fallback_text: leaves the session id out.
fallback_text_no_session(event_name, user_str, target, region, session_id, doc_name, source_ip, reason) ==
  Fmt(event_name) \o " " \o Fmt(user_str) \o " -> " \o Fmt(target)
    \o " (" \o Fmt(region) \o ")" \o " doc=" \o Fmt(doc_name) \o " ip=" \o Fmt(source_ip)
    \o (IF Truthy(reason) /\ reason # Str("-") THEN " reason=" \o Fmt(reason) ELSE "")

\* fallback = f"{event_name} {user_str} -> {target} ({region}) session=... doc=... ip=..."
\* and " reason=..." when reason is given
fallback_text(event_name, user_str, target, region, session_id, doc_name, source_ip, reason) ==
  Fmt(event_name) \o " " \o Fmt(user_str) \o " -> " \o Fmt(target)
    \o " (" \o Fmt(region) \o ") session=" \o Fmt(session_id)
    \o " doc=" \o Fmt(doc_name) \o " ip=" \o Fmt(source_ip)
    \o (IF Truthy(reason) /\ reason # Str("-") THEN " reason=" \o Fmt(reason) ELSE "")

\* The code-span quote of Slack's mrkdwn (a grave accent in the source, which
\* a TLA+ string cannot hold).
Tick == "'"

Mrkdwn(text) == [type |-> "mrkdwn", text |-> text]

build_slack_payload(ev, environ) ==
  IF ev.k # "dict" THEN NoAttr(ev, "get") ELSE
  LET detail == detail_of(ev) IN
  IF detail.k # "dict" THEN NoAttr(detail, "get") ELSE
  LET event_name == event_name_of(detail)
      region     == region_of(detail)
      event_time == to_iso8601(Get(detail, "eventTime", None))
      source_ip  == source_ip_of(detail)
      user_agent == Get(detail, "userAgent", Str("-"))
      event_id   == Or(Get(detail, "eventID", None), Or(Get(detail, "eventId", None), Str("-")))
      us         == build_user_summary(user_identity_of(detail))
  IN
  IF ~us.ok THEN us ELSE
  LET user_str    == us.v.short
      user_fields == us.v.extras
      user_type   == IF "UserType" \in DOMAIN user_fields THEN user_fields["UserType"] ELSE Str("-")
      account     == IF "Account" \in DOMAIN user_fields THEN user_fields["Account"] ELSE Str("-")
      req         == req_of(detail)
      resp        == resp_of(detail)
  IN
  IF req.k # "dict" THEN NoAttr(req, "get") ELSE
  LET target   == target_of(req)
      doc_name == doc_name_of(req)
      reason   == reason_of(req)
  IN
  IF resp.k # "dict" THEN NoAttr(resp, "get") ELSE
  LET sid == session_id_of(resp) IN
  IF ~sid.ok THEN sid ELSE
  LET session_id    == sid.v
      primary_emoji == IF event_name = Str("StartSession")
                       THEN ":large_blue_circle:" ELSE ":information_source:"
      flags         == risk_flags_of(user_type, user_str, source_ip)
  IN
  IF ~flags.ok THEN flags ELSE
  LET risk_flags   == flags.v
      has_link     == event_id # Str("-") /\ region # Str("-")
      console_link == "https://" \o Fmt(region) \o ".console.aws.amazon.com/cloudtrail/home?region="
                        \o Fmt(region) \o "#/events/" \o Fmt(event_id)
      fallback     == fallback_text(event_name, user_str, target, region, session_id,
                                    doc_name, source_ip, reason)
      header_text  == primary_emoji \o " SSM " \o Fmt(event_name)
      summary_lines ==
        << "*User:* " \o Fmt(user_str) \o "  |  *Acct:* " \o Fmt(account),
           "*Target:* " \o Tick \o Fmt(target) \o Tick \o "  |  *Session:* " \o Tick \o Fmt(session_id) \o Tick,
           "*Doc:* " \o Tick \o Fmt(doc_name) \o Tick \o "  |  *Region:* " \o Fmt(region),
           "*IP:* " \o Fmt(source_ip) >>
        \o (IF Truthy(reason) /\ reason # Str("-")
            THEN << "*Reason:* _" \o Fmt(reason) \o "_" >> ELSE <<>>)
        \o (IF risk_flags # <<>> THEN << Join("\n", risk_flags) >> ELSE <<>>)
      icon_url     == Strip(get_env(environ, "ICON_URL", Str("")).s)
      section_text == [type |-> "section", text |-> Mrkdwn(Join("\n", summary_lines))]
      section_block ==
        IF icon_url # ""
        THEN section_text @@ ("accessory" :> [type |-> "image", image_url |-> icon_url, alt_text |-> "icon"])
        ELSE section_text
  IN
  IF user_agent.k # "str"
  THEN Raise("TypeError", "'" \o (IF user_agent.k = "none" THEN "NoneType" ELSE user_agent.k)
                            \o "' object is not subscriptable")
  ELSE
  LET context_elems ==
        << Mrkdwn("*Time:* " \o Fmt(event_time)),
           Mrkdwn("*UserType:* " \o Fmt(user_type)),
           Mrkdwn("UA: " \o SubSeq(user_agent.s, 1, Min(UserAgentMax, Len(user_agent.s)))) >>
        \o (IF has_link THEN << Mrkdwn("<" \o console_link \o "|CloudTrail Event>") >> ELSE <<>>)
      blocks ==
        << [type |-> "header", text |-> [type |-> "plain_text", text |-> header_text]],
           section_block,
           [type |-> "divider"],
           [type |-> "context", elements |-> context_elems] >>
  IN
  Return(with_channel([text |-> fallback, blocks |-> blocks,
                       unfurl_links |-> FALSE, unfurl_media |-> FALSE,
                       username |-> "SSM Alerts", icon_emoji |-> ":lock:"], environ))

(* --------------- build_slack_payload (lambda_function.py) ------------- *)

\* text_lines, joined by "\n"
lf_fallback_text(event_name, user_str, account, target, session_id, region, source_ip, event_time, reason) ==
  Join("\n",
    << "SSM " \o Fmt(event_name),
       "User: " \o Fmt(user_str),
       "Account: " \o Fmt(account),
       "Target: " \o Fmt(target),
       "SessionId: " \o Fmt(session_id),
       "Region: " \o Fmt(region),
       "Source IP: " \o Fmt(source_ip),
       "Time: " \o Fmt(event_time) >>
    \o (IF Truthy(reason) /\ reason # Str("-") THEN << "Reason: " \o Fmt(reason) >> ELSE <<>>))

lf_build_slack_payload(ev, environ) ==
  IF ev.k # "dict" THEN NoAttr(ev, "get") ELSE
  LET detail == detail_of(ev) IN
  IF detail.k # "dict" THEN NoAttr(detail, "get") ELSE
  LET event_name == event_name_of(detail)
      region     == region_of(detail)
      event_time == to_iso8601(Get(detail, "eventTime", None))
      source_ip  == source_ip_of(detail)
      user_agent == Get(detail, "userAgent", Str("-"))
      us         == build_user_summary(user_identity_of(detail))
  IN
  IF ~us.ok THEN us ELSE
  LET user_str    == us.v.short
      user_fields == us.v.extras
      account     == IF "Account" \in DOMAIN user_fields THEN user_fields["Account"] ELSE Str("-")
      req         == req_of(detail)
      resp        == resp_of(detail)
  IN
  IF req.k # "dict" THEN NoAttr(req, "get") ELSE
  LET target == target_of(req)
      reason == reason_of(req)
  IN
  IF resp.k # "dict" THEN NoAttr(resp, "get") ELSE
  LET sid == session_id_of(resp) IN
  IF ~sid.ok THEN sid ELSE
  LET session_id == sid.v
      emoji == IF event_name = Str("StartSession") THEN ":large_blue_circle:"
               ELSE IF event_name = Str("TerminateSession") THEN ":white_check_mark:"
               ELSE ":information_source:"
      title == emoji \o " SSM " \o Fmt(event_name)
      blocks ==
        << [type |-> "header", text |-> [type |-> "plain_text", text |-> title]],
           [type |-> "section",
            fields |-> << Mrkdwn("*User*\n" \o Fmt(user_str)),
                          Mrkdwn("*Account*\n" \o Fmt(account)),
                          Mrkdwn("*Target*\n" \o Fmt(target)),
                          Mrkdwn("*Session ID*\n" \o Fmt(session_id)),
                          Mrkdwn("*Region*\n" \o Fmt(region)),
                          Mrkdwn("*Source IP*\n" \o Fmt(source_ip)) >>] >>
        \o (IF Truthy(reason) /\ reason # Str("-")
            THEN << [type |-> "section", text |-> Mrkdwn("*Reason*\n" \o Fmt(reason))] >>
            ELSE <<>>)
        \o << [type |-> "context",
               elements |-> << Mrkdwn("Time: " \o Fmt(event_time)),
                               Mrkdwn("UserAgent: " \o Fmt(user_agent)) >>] >>
  IN
  Return(with_channel([text |-> lf_fallback_text(event_name, user_str, account, target,
                                                 session_id, region, source_ip, event_time, reason),
                       blocks |-> blocks,
                       unfurl_links |-> FALSE, unfurl_media |-> FALSE,
                       username |-> "SSM Alerts", icon_emoji |-> ":lock:"], environ))

\* The builder of the module the invocation runs.
builder(mod, ev, environ) ==
  IF mod = "main" THEN build_slack_payload(ev, environ) ELSE lf_build_slack_payload(ev, environ)

(* ---------------------- inputs: user identities ----------------------- *)

Absent == [k |-> "absent"]

\* A dict from a total assignment of keys to values or Absent.
MkDict(f) == Dict([key \in {q \in DOMAIN f : f[q] # Absent} |-> f[key]])

RECURSIVE StringsOver(_, _)
StringsOver(alphabet, n) ==
  IF n = 0 THEN {""}
  ELSE LET shorter == StringsOver(alphabet, n - 1) IN
       shorter \cup {s \o c : s \in shorter, c \in alphabet}

Arns == StringsOver({"r", "/"}, MaxArnLen)

SessionContexts ==
  { Absent, None, EmptyDict,
    Dict("sessionIssuer" :> None),
    Dict("sessionIssuer" :> EmptyDict),
    Dict("sessionIssuer" :> Dict("arn" :> Str(""))),
    Dict("sessionIssuer" :> Dict("arn" :> Str("arn:aws:iam::1:role/Ops"))) }

UserIdentities ==
  { MkDict([type |-> t, userName |-> u, principalId |-> p, accountId |-> a,
            arn |-> r, sessionContext |-> sc]) :
      t  \in {Absent, Str("IAMUser"), Str("AssumedRole"), Str("Root"), Str("FederatedUser")},
      u  \in {Absent, Str(""), Str("alice")},
      p  \in {Absent, Str(""), Str("AIDA1")},
      a  \in {Absent, Str(""), Str("123")},
      r  \in {Absent} \cup {Str(s) : s \in Arns},
      sc \in SessionContexts }

NoResult == [ok |-> FALSE, type |-> "", msg |-> ""]

NoOutcome == [kind |-> "none"]

Idle ==
  /\ module = "main"
  /\ event = None
  /\ env = <<>>
  /\ built = NoResult
  /\ sent = <<>>
  /\ net = NoOutcome
  /\ delivery = NoResult
  /\ exc = NoResult
  /\ result = NoResult

InitUser ==
  /\ Idle
  /\ pc = "summarize"
  /\ user_identity \in UserIdentities
  /\ summary = NoResult

Summarize ==
  /\ pc = "summarize"
  /\ summary' = build_user_summary(user_identity)
  /\ pc' = "summarized"
  /\ UNCHANGED <<module, event, env, built, sent, net, delivery, exc, result, user_identity>>

SpecUser == InitUser /\ [][Summarize]_vars

(* --------------------------- inputs: events --------------------------- *)

LongUserAgent ==
  "aws-cli/2.15.0 Python/3.11.6 Linux/6.1 exe/x86_64.ubuntu.22 prompt/off command/ssm.start-session"

DetailKeys ==
  {"eventName", "awsRegion", "eventTime", "sourceIPAddress", "userAgent", "eventID",
   "eventId", "userIdentity", "requestParameters", "responseElements"}

EventUserIdentities ==
  { None, EmptyDict,
    Dict([type |-> Str("IAMUser"), userName |-> Str("alice"), accountId |-> Str("123")]),
    Dict([type |-> Str("AssumedRole"), accountId |-> Str("123"),
          arn |-> Str("arn:aws:sts::123:assumed-role/Ops/ProdAdmin")]),
    Dict([type |-> Str("AssumedRole"), arn |-> Str("arn:aws:sts::123:assumed-role/Ops/bob"),
          sessionContext |-> None]),
    Dict([type |-> Str("Root"), accountId |-> Str("123")]) }

\* The values a key of detail takes besides those of the base events.
DetailOptions(key) ==
  CASE key = "eventName" -> {Absent, None, Str("TerminateSession")}
    [] key = "awsRegion" -> {Absent, None}
    [] key = "eventTime" -> {Absent, Str("not-a-date"), Num(5)}
    [] key = "sourceIPAddress" ->
         {Absent, None, Str("-"), Str("8.8.8.8"), Str("192.168.1.1"), Str("172.16.0.1"),
          Str("127.0.0.1"), Str("172.160.0.1"), Str("100.64.0.1")}
    [] key = "userAgent" -> {Absent, None, Str("curl/8")}
    [] key = "eventID" -> {Absent}
    [] key = "eventId" -> {Str("e-2")}
    [] key = "userIdentity" -> {Absent} \cup EventUserIdentities
    [] key = "requestParameters" ->
         {Absent, None, Str("x"), Dict([Target |-> Str("i-0456"), Reason |-> Str("-")]),
          Dict([target |-> Str("i-0123")])}
    [] key = "responseElements" ->
         {Absent, None, Dict([SessionId |-> Str("sess-2")]),
          Dict([StartSessionResponse |-> Dict([SessionId |-> Str("sess-3")])]),
          Dict([StartSessionResponse |-> None])}

FullDetail ==
  [eventName |-> Str("StartSession"), awsRegion |-> Str("us-east-1"),
   eventTime |-> Str("2024-01-01T12:34:56Z"), sourceIPAddress |-> Str("10.0.0.5"),
   userAgent |-> Str(LongUserAgent), eventID |-> Str("e-1"), eventId |-> Absent,
   userIdentity |-> Dict([type |-> Str("IAMUser"), userName |-> Str("alice"),
                          accountId |-> Str("123"), principalId |-> Str("AIDA1")]),
   requestParameters |-> Dict([target |-> Str("i-0123"), documentName |-> Str("SSM-Shell"),
                               reason |-> Str("debugging")]),
   responseElements |-> Dict([sessionId |-> Str("sess-1")])]

BareDetail == [key \in DetailKeys |-> Absent]

DetailOverrides == {<<key, v>> : key \in DetailKeys, v \in UNION {DetailOptions(q) : q \in DetailKeys}}

\* The assignments that differ from one of `from` in at most n keys.
RECURSIVE Overridden(_, _)
Overridden(from, n) ==
  IF n = 0 THEN from
  ELSE LET less == Overridden(from, n - 1) IN
       less \cup {[d EXCEPT ![kv[1]] = kv[2]] :
                    d \in less, kv \in {o \in DetailOverrides : o[2] \in DetailOptions(o[1])}}

\* Event documents: not a mapping, without detail, with a null detail, and
\* with a detail that is a base detail overridden in at most n keys.
Events(n) ==
  {None, List, EmptyDict, Dict([detail |-> None]), Dict([detail |-> Str("x")])}
    \cup {Dict([detail |-> MkDict(d)]) : d \in Overridden({FullDetail, BareDetail}, n)}

Environs ==
  { <<>>,
    [SLACK_CHANNEL |-> "  "],
    [SLACK_CHANNEL |-> " #ops ", ICON_URL |-> "https://example.com/icon.png"] }

Modules == {"main", "lambda_function"}

InitBuild ==
  /\ module \in Modules
  /\ event \in Events(MaxOverrides)
  /\ env \in Environs
  /\ pc = "build"
  /\ built = NoResult
  /\ sent = <<>>
  /\ net = NoOutcome
  /\ delivery = NoResult
  /\ exc = NoResult
  /\ result = NoResult
  /\ user_identity = None
  /\ summary = NoResult

BuildOnly ==
  /\ pc = "build"
  /\ built' = builder(module, event, env)
  /\ pc' = "built"
  /\ UNCHANGED <<module, event, env, sent, net, delivery, exc, result, user_identity, summary>>

SpecBuild == InitBuild /\ [][BuildOnly]_vars

(* ---------------------------- send_to_slack --------------------------- *)

\* json.dumps of a string: quotes, backslashes and line ends are escaped
RECURSIVE JsonEscape(_)
JsonEscape(s) ==
  IF s = "" THEN ""
  ELSE LET c == SubSeq(s, 1, 1) IN
       (CASE c = "\"" -> "\\\""
          [] c = "\\" -> "\\\\"
          [] c = "\n" -> "\\n"
          [] c = "\r" -> "\\r"
          [] OTHER    -> c) \o JsonEscape(SubSeq(s, 2, Len(s)))

\* json.dumps({"error": msg})
json_error(msg) == "{\"error\": \"" \o JsonEscape(msg) \o "\"}"

\* json.dumps({"ok": True})
json_ok == "{\"ok\": true}"

\* The scheme of a URL as urllib.request.Request finds it: the characters
\* before the first ":" when none of them is "/"; "" when there is none.
url_type(url) ==
  IF \E i \in 2..Len(url) :
       /\ SubSeq(url, i, i) = ":"
       /\ \A j \in 1..(i - 1) : SubSeq(url, j, j) \notin {"/", ":"}
  THEN LET i == CHOOSE i \in 2..Len(url) :
                  /\ SubSeq(url, i, i) = ":"
                  /\ \A j \in 1..(i - 1) : SubSeq(url, j, j) \notin {"/", ":"}
       IN Lower(SubSeq(url, 1, i - 1))
  ELSE ""

\* Faulty variant of webhook_missing: an empty URL counts as configured.
webhook_is_none(webhook) == webhook.k = "none"

\* if not webhook
webhook_missing(webhook) == ~Truthy(webhook)

TransportFailureStatus == 599

ErrorStatusFloor == 400

InternalErrorStatus == 500

OkStatus == 200

\* How the network can answer one request.  urlopen returns the response of a
\* 2xx answer, raises HTTPError for any other final answer (a 304, a 307 to a
\* POST, a 4xx, a 5xx), wraps a failure to connect or to send in URLError, and
\* lets a failure while the response is read (a timeout of the socket, a
\* connection closed early) through as it is.
NetOutcomes ==
  {[kind |-> "response", status |-> 200, body |-> "ok"],
   [kind |-> "response", status |-> 204, body |-> ""]}
  \cup {[kind |-> "HTTPError", status |-> o[1], body |-> o[2]] :
          o \in {<<304, "">>, <<307, "">>, <<400, "invalid_payload">>, <<404, "no_service">>,
                 <<429, "rate_limited">>, <<500, "{\"ok\": false}">>, <<503, "">>}}
  \cup {[kind |-> "URLError", reason |-> r] :
          r \in {"[Errno -2] Name or service not known", "[Errno 111] Connection refused",
                 "[SSL: CERTIFICATE_VERIFY_FAILED] certificate verify failed", "timed out"}}
  \cup {[kind |-> "raised", type |-> o[1], msg |-> o[2]] :
          o \in {<<"TimeoutError", "timed out">>,
                 <<"RemoteDisconnected", "Remote end closed connection without response">>}}

Delivered(status, body) == Return([status |-> status, body |-> body])

\* The try block around urlopen: what send_to_slack returns or raises for an
\* answer of the network.
send_outcome(o) ==
  CASE o.kind = "response"  -> Delivered(o.status, o.body)
    [] o.kind = "HTTPError" -> Delivered(o.status, o.body)
    [] o.kind = "URLError"  -> Delivered(TransportFailureStatus, "<urlopen error " \o o.reason \o ">")
    [] o.kind = "raised"    -> Raise(o.type, o.msg)

(* ----------------------- handler / lambda_handler --------------------- *)

\* Faulty variant of caught: the handler catches RuntimeError alone.
caught_runtime_only(type) == type = "RuntimeError"

\* except Exception: every exception raised here derives from Exception
caught(type) == type \in {"AttributeError", "TypeError", "RuntimeError", "ValueError",
                          "TimeoutError", "RemoteDisconnected"}

\* log("Received event:", json.dumps(event)): an event document is JSON, so
\* json.dumps returns.
LogEvent ==
  /\ pc = "start"
  /\ pc' = "build"
  /\ UNCHANGED <<module, event, env, built, sent, net, delivery, exc, result, user_identity, summary>>

\* payload = build_slack_payload(event)
Build ==
  /\ pc = "build"
  /\ LET b == builder(module, event, env) IN
       /\ built' = b
       /\ IF b.ok
          THEN pc' = "send" /\ exc' = exc
          ELSE pc' = "except" /\ exc' = b
  /\ UNCHANGED <<module, event, env, sent, net, delivery, result, user_identity, summary>>

\* send_to_slack up to the Request object: the webhook is read and checked.
Prepare ==
  /\ pc = "send"
  /\ LET webhook == get_env(env, "SLACK_WEBHOOK_URL", None) IN
     IF webhook_missing(webhook)
     THEN pc' = "except" /\ exc' = Raise("RuntimeError", "SLACK_WEBHOOK_URL is not set")
     ELSE IF url_type(Fmt(webhook)) = ""
     THEN pc' = "except" /\ exc' = Raise("ValueError", "unknown url type: '" \o Fmt(webhook) \o "'")
     ELSE pc' = "urlopen" /\ exc' = exc
  /\ UNCHANGED <<module, event, env, built, sent, net, delivery, result, user_identity, summary>>

\* Faulty variant of Urlopen: a transport failure is tried again.
UrlopenRetrying ==
  /\ pc = "urlopen"
  /\ Len(sent) < 3
  /\ \E o \in NetOutcomes :
       /\ sent' = Append(sent, [url |-> env["SLACK_WEBHOOK_URL"], method |-> "POST", json |-> built.v])
       /\ net' = o
       /\ IF o.kind = "URLError" /\ Len(sent) < 2
          THEN pc' = "urlopen" /\ delivery' = delivery /\ exc' = exc
          ELSE IF send_outcome(o).ok
          THEN pc' = "respond" /\ delivery' = send_outcome(o) /\ exc' = exc
          ELSE pc' = "except" /\ delivery' = delivery /\ exc' = send_outcome(o)
  /\ UNCHANGED <<module, event, env, built, result, user_identity, summary>>

\* urlopen(req, timeout=10) and the handlers around it.  A URL whose scheme no
\* handler opens fails with URLError before anything is sent.
Urlopen ==
  /\ pc = "urlopen"
  /\ IF url_type(env["SLACK_WEBHOOK_URL"]) \notin {"http", "https"}
     THEN /\ delivery' = Delivered(TransportFailureStatus,
                                   "<urlopen error unknown url type: "
                                     \o url_type(env["SLACK_WEBHOOK_URL"]) \o ">")
          /\ pc' = "respond"
          /\ UNCHANGED <<sent, net, exc>>
     ELSE \E o \in NetOutcomes :
            /\ sent' = Append(sent, [url |-> env["SLACK_WEBHOOK_URL"], method |-> "POST", json |-> built.v])
            /\ net' = o
            /\ IF send_outcome(o).ok
               THEN pc' = "respond" /\ delivery' = send_outcome(o) /\ exc' = exc
               ELSE pc' = "except" /\ delivery' = delivery /\ exc' = send_outcome(o)
  /\ UNCHANGED <<module, event, env, built, result, user_identity, summary>>

\* if status >= 400: return the status and the error, else 200 and ok
respond(status, resp) ==
  IF status >= ErrorStatusFloor
  THEN [statusCode |-> status, body |-> json_error(resp)]
  ELSE [statusCode |-> OkStatus, body |-> json_ok]

Respond ==
  /\ pc = "respond"
  /\ result' = Return(respond(delivery.v.status, delivery.v.body))
  /\ pc' = "done"
  /\ UNCHANGED <<module, event, env, built, sent, net, delivery, exc, user_identity, summary>>

\* except Exception as e: return 500 and str(e); anything else leaves the
\* entry point as an exception.
Except ==
  /\ pc = "except"
  /\ IF caught(exc.type)
     THEN /\ result' = Return([statusCode |-> InternalErrorStatus, body |-> json_error(exc.msg)])
          /\ pc' = "done"
     ELSE /\ result' = result
          /\ pc' = "escaped"
  /\ UNCHANGED <<module, event, env, built, sent, net, delivery, exc, user_identity, summary>>

Webhooks ==
  { <<>>,
    [SLACK_WEBHOOK_URL |-> ""],
    [SLACK_WEBHOOK_URL |-> "hooks.slack.com/services/T0/B0/x"],
    [SLACK_WEBHOOK_URL |-> "slack://T0/B0/x"],
    [SLACK_WEBHOOK_URL |-> "https://hooks.slack.com/services/T0/B0/x"] }

Init ==
  /\ module \in Modules
  /\ event \in Events(MaxHandlerOverrides)
  /\ env \in {w @@ c : w \in Webhooks, c \in {<<>>, [SLACK_CHANNEL |-> " #ops "]}}
  /\ pc = "start"
  /\ built = NoResult
  /\ sent = <<>>
  /\ net = NoOutcome
  /\ delivery = NoResult
  /\ exc = NoResult
  /\ result = NoResult
  /\ user_identity = None
  /\ summary = NoResult

Next == LogEvent \/ Build \/ Prepare \/ Urlopen \/ Respond \/ Except

Spec == Init /\ [][Next]_vars

(* ---------------------- claims on the entry point --------------------- *)

Finished == pc \in {"done", "escaped"}

\* C1: every invocation that ends has returned a result with a numeric
\* statusCode and a body: no exception leaves the entry point; whatever was
\* raised inside the try block is returned as status 500 with the body
\* {"error": message}.
C1_AlwaysStructuredResult ==
  /\ pc \in {"start", "build", "send", "urlopen", "respond", "except", "done"}
  /\ pc = "except" => exc # NoResult
  /\ pc = "respond" => delivery.ok
  /\ pc # "done" => result = NoResult
  /\ Finished =>
       /\ pc = "done"
       /\ result.ok
       /\ result.v.statusCode \in Nat
       /\ Len(result.v.body) > 0
       /\ exc # NoResult => result.v = [statusCode |-> 500, body |-> json_error(exc.msg)]

\* The response was being read when the socket timed out, and 500 came back.
C1_Witness ==
  /\ pc = "done"
  /\ exc = Raise("TimeoutError", "timed out")
  /\ result.v = [statusCode |-> 500, body |-> "{\"error\": \"timed out\"}"]

WebhookUnsetOrEmpty ==
  "SLACK_WEBHOOK_URL" \notin DOMAIN env \/ env["SLACK_WEBHOOK_URL"] = ""

\* C2: with no webhook URL (unset or empty) nothing is ever put on the
\* network; send_to_slack raises the configuration error and the invocation
\* returns status 500.
C2_NoWebhookNoNetwork ==
  WebhookUnsetOrEmpty =>
    /\ sent = <<>>
    /\ net = NoOutcome
    /\ pc \notin {"urlopen", "respond", "escaped"}
    /\ pc = "done" =>
         /\ result.v.statusCode = 500
         /\ built.ok => exc = Raise("RuntimeError", "SLACK_WEBHOOK_URL is not set")

\* A payload was built, the webhook URL was empty, and 500 came back.
C2_Witness ==
  /\ pc = "done"
  /\ "SLACK_WEBHOOK_URL" \in DOMAIN env
  /\ env["SLACK_WEBHOOK_URL"] = ""
  /\ built.ok
  /\ sent = <<>>
  /\ result.v = [statusCode |-> 500, body |-> "{\"error\": \"SLACK_WEBHOOK_URL is not set\"}"]

\* C3: every failure of the network (DNS, connection, TLS, timeout; while
\* connecting or while the response is read) makes send_to_slack return 599
\* with the error text, and the invocation reports 599.
C3_TransportFailureIs599 ==
  (pc = "done" /\ net.kind \in {"URLError", "raised"}) =>
    /\ delivery.ok
    /\ delivery.v.status = 599
    /\ result.v.statusCode = 599

\* C4: an answer with status s >= 400 and body b is returned as (s, b) and
\* reported as statusCode s with body {"error": b}; the result is 200 with
\* {"ok": true} if and only if the delivery succeeded.
C4_ResultMirrorsDelivery ==
  pc = "done" =>
    /\ (net.kind = "HTTPError" /\ net.status >= 400) =>
         /\ delivery = Delivered(net.status, net.body)
         /\ result.v = [statusCode |-> net.status, body |-> json_error(net.body)]
    /\ result.v = [statusCode |-> 200, body |-> json_ok] <=> net.kind = "response"

UsableWebhook ==
  /\ "SLACK_WEBHOOK_URL" \in DOMAIN env
  /\ url_type(env["SLACK_WEBHOOK_URL"]) \in {"http", "https"}

C6_BuilderNeverRaises == (pc = "built" /\ event.k = "dict") => built.ok

\* The text a block shows.
BlockText(b) ==
  CASE b.type = "header"  -> b.text.text
    [] b.type = "section" ->
         IF "fields" \in DOMAIN b
         THEN Join("\n", [i \in DOMAIN b.fields |-> b.fields[i].text])
         ELSE b.text.text
    [] b.type = "context" -> Join("\n", [i \in DOMAIN b.elements |-> b.elements[i].text])
    [] OTHER -> ""

InBlocks(blocks, s) == \E i \in DOMAIN blocks : Contains(BlockText(blocks[i]), s)

\* What the fields of the built event resolve to (read once a payload is built).
ResolvedDetail == detail_of(event)

ResolvedActor == build_user_summary(user_identity_of(ResolvedDetail)).v

ResolvedReason == reason_of(req_of(ResolvedDetail))

ResolvedFacts ==
  { Fmt(event_name_of(ResolvedDetail)),
    Fmt(ResolvedActor.short),
    Fmt(target_of(req_of(ResolvedDetail))),
    Fmt(session_id_of(resp_of(ResolvedDetail)).v),
    Fmt(region_of(ResolvedDetail)) }

\* How the fallback text of each module introduces the reason.
ReasonLine ==
  (IF module = "main" THEN " reason=" ELSE "\nReason: ") \o Fmt(ResolvedReason)

\* C8: the fallback text of every payload holds the resolved event name, actor
\* label, target, session id and region, each of which a block of the same
\* payload shows too; it holds the reason exactly when the reason resolved to
\* something other than the placeholder.
C8_FallbackHoldsTheFacts ==
  (pc = "built" /\ built.ok) =>
    /\ \A f \in ResolvedFacts :
         Contains(built.v.text, f) /\ InBlocks(built.v.blocks, f)
    /\ Contains(built.v.text, ReasonLine) <=> ResolvedReason # Str("-")

\* A payload was built for an event with a reason and a nested session id.
C8_Witness ==
  /\ pc = "built"
  /\ built.ok
  /\ ResolvedReason = Str("debugging")
  /\ "sess-3" \in ResolvedFacts
  /\ Contains(built.v.text, "sess-3")

ResolvedUserType ==
  IF "UserType" \in DOMAIN ResolvedActor.extras THEN ResolvedActor.extras["UserType"] ELSE Str("-")

ResolvedIp == source_ip_of(ResolvedDetail)

\* C10: in the payload of main.py the external-IP flag is shown exactly when
\* the source IP is not the placeholder, not 127.0.0.1 and starts with none of
\* "10.", "192.168.", "172.16."; an actor of type Root always shows the
\* root-account flag.
C10_RiskFlags ==
  (pc = "built" /\ built.ok /\ module = "main") =>
    /\ InBlocks(built.v.blocks, ExternalIpFlag) <=>
         /\ ResolvedIp.k = "str"
         /\ ResolvedIp.s # "-"
         /\ ResolvedIp.s # "127.0.0.1"
         /\ \A prefix \in {"10.", "192.168.", "172.16."} : ~StartsWith(ResolvedIp.s, prefix)
    /\ ResolvedUserType = Str("Root") => InBlocks(built.v.blocks, RootFlag)

\* A payload was built for a Root actor coming from 8.8.8.8.
C10_Witness ==
  /\ pc = "built"
  /\ built.ok
  /\ module = "main"
  /\ ResolvedUserType = Str("Root")
  /\ ResolvedIp = Str("8.8.8.8")
  /\ InBlocks(built.v.blocks, ExternalIpFlag)
  /\ InBlocks(built.v.blocks, RootFlag)

(* ----------------------- claims on the summarizer --------------------- *)

\* The value of a key of the input when it is present and non-empty.
Given(d, key) == key \in DOMAIN d.d /\ d.d[key].k = "str" /\ d.d[key].s # ""

InputArn == IF Given(user_identity, "arn") THEN user_identity.d["arn"].s ELSE ""

InputType == Get(user_identity, "type", None)

\* sessionContext and sessionIssuer are each absent or a mapping.
IssuerPathShaped ==
  LET sc == Get(user_identity, "sessionContext", EmptyDict) IN
  /\ sc.k = "dict"
  /\ Get(sc, "sessionIssuer", EmptyDict).k = "dict"

InputIssuer ==
  LET si == Get(Get(user_identity, "sessionContext", EmptyDict), "sessionIssuer", EmptyDict) IN
  IF Given(si, "arn") THEN si.d["arn"] ELSE Str("-")

\* t is what follows the last "/" of s
AfterLastSlash(s, t) ==
  \E i \in 1..Len(s) :
    /\ SubSeq(s, i, i) = "/"
    /\ t = SubSeq(s, i + 1, Len(s))
    /\ \A j \in (i + 1)..Len(s) : SubSeq(s, j, j) # "/"

\* C7: for every user identity, whatever its discriminant and whichever of
\* userName, principalId, arn and accountId are present, absent or empty, the
\* label is a non-empty string and the auxiliary mapping holds Account and
\* Principal, each the input value when given and "-" otherwise.
C7_LabelNonEmptyAndAccountPrincipal ==
  (pc = "summarized" /\ summary.ok) =>
    /\ summary.v.short.k = "str"
    /\ summary.v.short.s # ""
    /\ {"Account", "Principal"} \subseteq DOMAIN summary.v.extras
    /\ summary.v.extras["Account"] =
         (IF Given(user_identity, "accountId") THEN user_identity.d["accountId"] ELSE Str("-"))
    /\ summary.v.extras["Principal"] =
         (IF Given(user_identity, "principalId") THEN user_identity.d["principalId"] ELSE Str("-"))

\* C9: for an AssumedRole identity the label is what follows the last "/" of
\* the ARN when the ARN has a "/", and otherwise the username, else the
\* principal id, else "assumed-role"; UserType is "AssumedRole" and RoleIssuer
\* is the session issuer's ARN, or "-" when there is none.
C9_AssumedRoleLabel ==
  (pc = "summarized" /\ InputType = Str("AssumedRole") /\ IssuerPathShaped) =>
    /\ summary.ok
    /\ summary.v.short.k = "str"
    /\ IF Contains(InputArn, "/")
       THEN AfterLastSlash(InputArn, summary.v.short.s)
       ELSE summary.v.short =
              (IF Given(user_identity, "userName") THEN user_identity.d["userName"]
               ELSE IF Given(user_identity, "principalId") THEN user_identity.d["principalId"]
               ELSE Str("assumed-role"))
    /\ summary.v.extras["UserType"] = Str("AssumedRole")
    /\ summary.v.extras["RoleIssuer"] = InputIssuer

\* An AssumedRole identity whose ARN has two "/" was summarized with an issuer.
C9_Witness ==
  /\ pc = "summarized"
  /\ InputType = Str("AssumedRole")
  /\ InputArn \in {"/r/", "r/r"}
  /\ summary.ok
  /\ summary.v.extras["RoleIssuer"] = Str("arn:aws:iam::1:role/Ops")

====
